---- MODULE Spec2Model ----
(***************************************************************************)
(* State-machine model of the Docmost MCP gateway: src/src/config.js       *)
(* (loadConfig) and src/src/server.js (tool registry, dispatcher, the two  *)
(* protocol adapters, bootstrap, and the DocmostClient backend client).    *)
(*                                                                         *)
(* JavaScript values are modelled as follows.                              *)
(*   - undefined / null / "" of a plain string field: the strings Undef,   *)
(*     Null and "" (all falsy, see Truthy).                                *)
(*   - strings the code takes apart (cookies, the base URL): sequences of  *)
(*     lexemes, <<>> being the empty (or absent) string.                   *)
(*   - JSON objects: records with one field per key the code reads, Undef  *)
(*     standing for a key that is absent.                                  *)
(***************************************************************************)
EXTENDS Integers, Sequences, FiniteSets, TLC

\* ------------------------------------------------------------------ bounds
\* Connections the listener handles at the same time.
MaxReq == 2
\* Pages the modelled backend serves with hasNextPage true before the
\* exploration stops following the pagination loop.
MaxPage == 3

Conns == 1..MaxReq

\* ------------------------------------------------------------ JS helpers
Undef == "undefined"
Null == "null"
Truthy(v) == v \notin {Undef, Null, ""}

RECURSIVE IndexOf(_, _, _)
\* First position >= i of lexeme c in s, or 0.
IndexOf(s, c, i) ==
  IF i > Len(s) THEN 0 ELSE IF s[i] = c THEN i ELSE IndexOf(s, c, i + 1)

RECURSIVE Split(_, _)
\* String.prototype.split on a one-lexeme separator.
Split(s, sep) ==
  LET i == IndexOf(s, sep, 1)
  IN IF i = 0 THEN <<s>>
     ELSE <<SubSeq(s, 1, i - 1)>> \o Split(SubSeq(s, i + 1, Len(s)), sep)

StartsWith(s, p) == Len(s) >= Len(p) /\ SubSeq(s, 1, Len(p)) = p

RECURSIVE Join(_, _)
\* Array.prototype.join / Headers.get's combination of repeated headers.
Join(ss, sep) ==
  IF ss = <<>> THEN <<>>
  ELSE IF Len(ss) = 1 THEN ss[1]
  ELSE ss[1] \o sep \o Join(Tail(ss), sep)

RECURSIVE Find(_, _)
\* Array.prototype.find with the predicate startsWith(p); <<>> when none.
Find(ss, p) ==
  IF ss = <<>> THEN <<>>
  ELSE IF StartsWith(ss[1], p) THEN <<ss[1]>> ELSE Find(Tail(ss), p)

Range(s) == {s[i] : i \in DOMAIN s}

\* ---------------------------------------------------------------- config.js
ToLowerCase(s) ==
  CASE s = "TRUE" -> "true"
    [] s = "Yes" -> "yes"
    [] OTHER -> s

parseBoolean(value) ==
  IF value = Undef THEN FALSE
  ELSE ToLowerCase(value) \in {"true", "1", "yes", "on"}

\* The process environment the gateway may be started with.
BaseUrls == {<<>>, <<"http://docmost">>, <<"http://docmost", "/">>}
Envs ==
  [DOCMOST_BASE_URL : BaseUrls,
   DOCMOST_API_TOKEN : {Undef, "", "tok"},
   DOCMOST_EMAIL : {Undef, "e@x"},
   DOCMOST_PASSWORD : {Undef, "pw"},
   READ_ONLY : {Undef, "true", "TRUE", "1", "on", "false", "0", ""}]

hasToken(env) == Truthy(env.DOCMOST_API_TOKEN)
hasCredentials(env) == Truthy(env.DOCMOST_EMAIL) /\ Truthy(env.DOCMOST_PASSWORD)

\* baseUrl.replace(/\/$/, '')
StripTrailingSlash(u) ==
  IF u # <<>> /\ u[Len(u)] = "/" THEN SubSeq(u, 1, Len(u) - 1) ELSE u

loadConfigThrows(env) ==
  \/ env.DOCMOST_BASE_URL = <<>>
  \/ ~hasToken(env) /\ ~hasCredentials(env)

loadConfig(env) ==
  [baseUrl |-> StripTrailingSlash(env.DOCMOST_BASE_URL),
   apiToken |-> IF hasToken(env) THEN env.DOCMOST_API_TOKEN ELSE Null,
   credentials |-> IF hasCredentials(env)
                   THEN <<[email |-> env.DOCMOST_EMAIL,
                           password |-> env.DOCMOST_PASSWORD]>>
                   ELSE <<>>,
   readOnly |-> parseBoolean(env.READ_ONLY)]

\* --------------------------------------------------------- tool registry
baseTools ==
  <<"list_spaces", "list_pages", "get_page", "search_pages",
    "create_page", "update_page">>

IsReadTool(name) == name # "create_page" /\ name # "update_page"

\* The advertised set without the read-only filter.
AdvertisedToolsUnfiltered(readOnly) == baseTools

\* bootstrap's computation of the advertised set.
AdvertisedTools(readOnly) ==
  IF readOnly THEN SelectSeq(baseTools, IsReadTool) ELSE baseTools

\* ------------------------------------------------------------ JSON values
\* A value request() can return: a parsed JSON object (t = "obj") with an
\* optional items array and a meta that is absent ("absent"), null ("null"),
\* an object without hasNextPage ("noflag") or one with hasNextPage
\* true/false; or a string (t = "text").
Obj(hasItems, items, meta) ==
  [t |-> "obj", hasItems |-> hasItems, items |-> items, meta |-> meta,
   text |-> ""]
Text(s) ==
  [t |-> "text", hasItems |-> FALSE, items |-> <<>>, meta |-> "absent",
   text |-> s]
NoValue ==
  [t |-> "none", hasItems |-> FALSE, items |-> <<>>, meta |-> "absent",
   text |-> ""]

\* Error(message): kind is the spec's error class, text the message template
\* of the throw site, arg1/arg2 the values interpolated into it.
Err(kind, text, arg1, arg2) ==
  [kind |-> kind, text |-> text, arg1 |-> arg1, arg2 |-> arg2]
NoErr == Err("none", "", "", "")

\* -------------------------------------------------------- backend replies
HtmlUpper == "<!DOCTYPE html><html>"
HtmlLower == "<!doctype html><html>"
Plain == "Not Found"
JsonText == "{json}"

\* body.toLowerCase().includes('<!doctype html')
BodyToLowerCase(s) == IF s = HtmlUpper THEN HtmlLower ELSE s
IncludesDoctype(s) == BodyToLowerCase(s) = HtmlLower

\* JSON objects the backend answers with.
PageContinuing == {Obj(TRUE, <<"a", "b">>, "true"), Obj(TRUE, <<"c">>, "true")}
PageFinal ==
  {Obj(TRUE, <<"c">>, "false"), Obj(TRUE, <<"a", "b">>, "noflag"),
   Obj(FALSE, <<>>, "absent")}
BackendObjs == PageContinuing \cup PageFinal

\* A reply to a fetch: arrives = FALSE is a rejected fetch (network error);
\* status with ok = (200 <= status <= 299); ctJson / ctHtml tell whether the
\* content-type header includes 'application/json' / 'text/html'; the body
\* is the JSON text of obj (wrapped in {data: obj} when wrapped) or a text.
Reply(arrives, status, ctJson, ctHtml, bodyKind, text, wrapped, obj) ==
  [arrives |-> arrives, status |-> status, ctJson |-> ctJson,
   ctHtml |-> ctHtml, bodyKind |-> bodyKind, text |-> text,
   wrapped |-> wrapped, obj |-> obj]

NetworkFailure == Reply(FALSE, 0, FALSE, FALSE, "none", "", FALSE, NoValue)
TextReply(status, ctJson, ctHtml, text) ==
  Reply(TRUE, status, ctJson, ctHtml, "text", text, FALSE, NoValue)
JsonReply(status, ctJson, ctHtml, wrapped, obj) ==
  Reply(TRUE, status, ctJson, ctHtml, "json", JsonText, wrapped, obj)

ErrorReplies ==
  {NetworkFailure,
   TextReply(404, FALSE, TRUE, HtmlUpper),
   TextReply(404, FALSE, FALSE, Plain),
   JsonReply(500, TRUE, FALSE, FALSE, Obj(FALSE, <<>>, "absent")),
   TextReply(200, FALSE, TRUE, HtmlLower),
   TextReply(200, FALSE, FALSE, HtmlUpper),
   TextReply(200, TRUE, FALSE, HtmlLower),
   JsonReply(200, TRUE, TRUE, FALSE, Obj(FALSE, <<>>, "absent"))}

DataReplies ==
  {JsonReply(200, TRUE, FALSE, w, o) : w \in BOOLEAN, o \in BackendObjs}
    \cup {TextReply(200, FALSE, FALSE, Plain),
          JsonReply(200, FALSE, FALSE, TRUE, Obj(TRUE, <<"c">>, "true"))}

Replies == ErrorReplies \cup DataReplies

ResponseOk(r) == 200 <= r.status /\ r.status <= 299

\* ------------------------------------------------------- DocmostClient
\* request(): the headers it attaches.
AuthHeaders(cl) ==
  IF Truthy(cl.apiToken)
  THEN [Authorization |-> <<"Bearer", " ", cl.apiToken>>, Cookie |-> <<>>]
  ELSE IF cl.authCookie # <<>>
       THEN [Authorization |-> <<>>,
             Cookie |-> <<"authToken", "=">> \o cl.authCookie]
       ELSE [Authorization |-> <<>>, Cookie |-> <<>>]

\* request(): whether response.json() is called on the reply.
ParsesAsJson(r) == r.arrives /\ r.ctJson

\* request(): what becomes of a reply.  [throws, error, value].
Outcome(throws, error, value) ==
  [throws |-> throws, error |-> error, value |-> value]

\* response.json() of a JSON body: {data: obj} when wrapped, else obj itself.
\* As a page object a wrapper has neither items nor meta.
ParsedBody(r) ==
  [hasData |-> r.wrapped, data |-> r.obj,
   self |-> IF r.wrapped THEN Obj(FALSE, <<>>, "absent") ELSE r.obj]

\* hasOwnProperty(body, 'data') ? body.data : body
Unwrap(b) == IF b.hasData THEN b.data ELSE b.self

StatusText(n) ==
  CASE n = 200 -> "200" [] n = 404 -> "404" [] n = 500 -> "500"
    [] OTHER -> "0"

request(r) ==
  IF ~r.arrives
  THEN Outcome(TRUE, Err("network", "fetch failed", "", ""), NoValue)
  ELSE IF r.ctJson /\ r.bodyKind # "json"
  THEN Outcome(TRUE, Err("syntax", "Unexpected token in JSON", "", ""),
               NoValue)
  ELSE IF ~ResponseOk(r)
  THEN Outcome(TRUE,
               Err("backend", "Docmost devolvio {status}: {message}",
                   StatusText(r.status), r.text),
               NoValue)
  ELSE IF r.ctHtml \/ (~r.ctJson /\ IncludesDoctype(r.text))
  THEN Outcome(TRUE,
               Err("config", "Docmost devolvio HTML en lugar de JSON.", "", ""),
               NoValue)
  ELSE IF r.ctJson
  THEN Outcome(FALSE, NoErr, Unwrap(ParsedBody(r)))
  ELSE Outcome(FALSE, NoErr, Text(r.text))

\* The body of an outbound POST; Undef / 0 for a key that is not sent.
OutBody ==
  [spaceId |-> Undef, page |-> 0, limit |-> 0, pageId |-> Undef,
   query |-> Undef, title |-> Undef, content |-> Undef,
   parentPageId |-> Undef, fields |-> Undef]

\* What a client method does before its first await: throws, or posts.
Throw(e) == [tag |-> "throw", error |-> e, path |-> "", body |-> OutBody]
Post(path, body) == [tag |-> "post", error |-> NoErr, path |-> path, body |-> body]

listSpaces ==
  Post("/api/spaces", [OutBody EXCEPT !.page = 1, !.limit = 50])

SidebarPages(spaceId, page) ==
  Post("/api/pages/sidebar-pages",
       [OutBody EXCEPT !.spaceId = spaceId, !.page = page])

listPages(spaceId) ==
  IF ~Truthy(spaceId)
  THEN Throw(Err("validation", "spaceId es obligatorio para listar paginas.",
                 "", ""))
  ELSE SidebarPages(spaceId, 1)

getPage(pageId) ==
  IF ~Truthy(pageId)
  THEN Throw(Err("validation", "pageId es obligatorio para obtener una pagina.",
                 "", ""))
  ELSE Post("/api/pages/info", [OutBody EXCEPT !.pageId = pageId])

searchPages(query) ==
  IF ~Truthy(query)
  THEN Throw(Err("validation", "query es obligatorio para buscar.", "", ""))
  ELSE Post("/api/search", [OutBody EXCEPT !.query = query])

createPage(title, content, spaceId, folderId) ==
  IF ~Truthy(title) \/ ~Truthy(content) \/ ~Truthy(spaceId)
  THEN Throw(Err("validation",
                 "title, content y spaceId son obligatorios para crear una pagina.",
                 "", ""))
  ELSE Post("/api/pages/create",
            [OutBody EXCEPT !.title = title, !.content = content,
                            !.spaceId = spaceId,
                            !.parentPageId =
                              IF Truthy(folderId) THEN folderId ELSE Null])

updatePage(pageId, payload) ==
  IF ~Truthy(pageId)
  THEN Throw(Err("validation",
                 "pageId es obligatorio para actualizar una pagina.", "", ""))
  ELSE Post("/api/pages/update",
            [OutBody EXCEPT !.pageId = pageId, !.fields = payload])

\* ------------------------------------------------------------- dispatcher
\* The params object of a tool call; Undef for a key that is absent.
NoParams ==
  [spaceId |-> Undef, pageId |-> Undef, query |-> Undef, title |-> Undef,
   content |-> Undef, folderId |-> Undef, payload |-> Undef]
FullParams ==
  [spaceId |-> "s1", pageId |-> "p1", query |-> "q", title |-> "T",
   content |-> "C", folderId |-> "f1", payload |-> "{title}"]
BlankParams ==
  [spaceId |-> "", pageId |-> "", query |-> "", title |-> "T",
   content |-> "C", folderId |-> Undef, payload |-> Undef]
ParamMenu == {NoParams, FullParams, BlankParams}

\* isWriteTool with update_page forgotten.
isWriteToolCreateOnly(tool) == tool = "create_page"

isWriteTool(tool) == tool = "create_page" \/ tool = "update_page"

\* handleToolCall whose switch falls back to list_spaces instead of throwing.
handleToolCallLenient(readOnly, tool, params) ==
  IF ~Truthy(tool)
  THEN Throw(Err("validation", "El campo tool es obligatorio.", "", ""))
  ELSE IF readOnly /\ isWriteTool(tool)
  THEN Throw(Err("policy",
                 "El servidor esta en modo READ_ONLY, no se permiten operaciones de escritura.",
                 "", ""))
  ELSE CASE tool = "list_pages" -> listPages(params.spaceId)
         [] tool = "get_page" -> getPage(params.pageId)
         [] tool = "search_pages" -> searchPages(params.query)
         [] tool = "create_page" ->
              createPage(params.title, params.content, params.spaceId,
                         params.folderId)
         [] tool = "update_page" -> updatePage(params.pageId, params.payload)
         [] OTHER -> listSpaces

\* handleToolCall(body) up to the client method's first await.  readOnly is
\* appConfig?.readOnly.
handleToolCall(readOnly, tool, params) ==
  IF ~Truthy(tool)
  THEN Throw(Err("validation", "El campo tool es obligatorio.", "", ""))
  ELSE IF readOnly /\ isWriteTool(tool)
  THEN Throw(Err("policy",
                 "El servidor esta en modo READ_ONLY, no se permiten operaciones de escritura.",
                 "", ""))
  ELSE CASE tool = "list_spaces" -> listSpaces
         [] tool = "list_pages" -> listPages(params.spaceId)
         [] tool = "get_page" -> getPage(params.pageId)
         [] tool = "search_pages" -> searchPages(params.query)
         [] tool = "create_page" ->
              createPage(params.title, params.content, params.spaceId,
                         params.folderId)
         [] tool = "update_page" -> updatePage(params.pageId, params.payload)
         [] OTHER ->
              Throw(Err("validation", "Herramienta desconocida: {tool}", tool, ""))


\* handleJsonRpc(body) up to its first await.  tag "throw": the handler
\* throws; "result": it returns {id, result} at once (what = "capabilities"
\* or "tools"); "call": it awaits handleToolCall({tool, params}).
RpcStep(tag, error, what, tool, params) ==
  [tag |-> tag, error |-> error, what |-> what, tool |-> tool,
   params |-> params]

handleJsonRpc(body) ==
  IF ~Truthy(body.jsonrpc) \/ ~Truthy(body.method)
  THEN RpcStep("throw", Err("protocol", "Formato JSON-RPC invalido.", "", ""),
               "", Undef, NoParams)
  ELSE CASE body.method = "initialize" ->
              RpcStep("result", NoErr, "capabilities", Undef, NoParams)
         [] body.method = "list_tools" ->
              RpcStep("result", NoErr, "tools", Undef, NoParams)
         [] body.method = "call_tool" ->
              RpcStep("call", NoErr, "", body.name, body.arguments)
         [] OTHER ->
              RpcStep("throw",
                      Err("protocol", "Metodo JSON-RPC desconocido: {method}",
                          body.method, ""),
                      "", Undef, NoParams)

\* ------------------------------------------------------- protocol adapter
\* A response written by the handler.  shape "json": sendJson(res, status,
\* payload); shape "rpc": sendJsonRpc(res, id, payload), whose body is
\* {jsonrpc: '2.0', id, ...payload} (id = Undef: JSON.stringify drops the
\* key); shape "empty": the preflight answer.  kind tells the payload:
\* "result", "error" or "info" (note names it).
Response(status, shape, kind, id, code, error, tools, content, note) ==
  [status |-> status, shape |-> shape, kind |-> kind, id |-> id,
   code |-> code, error |-> error, tools |-> tools, content |-> content,
   note |-> note]

sendJsonResult(content) ==
  Response(200, "json", "result", Undef, 0, NoErr, <<>>, content, "")
sendJsonError(e) ==
  Response(400, "json", "error", Undef, 0, e, <<>>, NoValue, "")
sendJsonInfo(status, tls, note) ==
  Response(status, "json", "info", Undef, 0, NoErr, tls, NoValue, note)
sendJsonRpc(id, tls, content, note) ==
  Response(200, "rpc", "result", id, 0, NoErr, tls, content, note)
sendJsonRpcError(id, code, e) ==
  Response(200, "rpc", "error", id, code, e, <<>>, NoValue, "")

\* The catch blocks of the two adapters.
DirectCatch(e) == sendJsonError(e)
RpcCatch(e) == sendJsonRpcError(Null, -32600, e)

\* parseJsonBody(req): raw tells what arrives on the request stream.
\* "oversize": more than 5,000,000 characters; "invalid": not JSON;
\* "empty": nothing (parsed as {}); "json": the JSON text of the body.
RawKinds == {"oversize", "invalid", "empty", "json"}
parseJsonBodyRejects(raw) == raw \in {"oversize", "invalid"}
parseJsonBodyError(raw) ==
  IF raw = "oversize"
  THEN Err("body", "El cuerpo de la peticion es demasiado grande.", "", "")
  ELSE Err("body", "El cuerpo debe ser JSON valido.", "", "")
\* req.destroy() (server.js:79) destroys the socket the request came on.
parseJsonBodyDestroys(raw) == raw = "oversize"

\* ------------------------------------------------------------------ state
VARIABLES
  phase,      \* "start" | "login" | "listening" | "exited"
  exitCode,   \* process exit status once phase = "exited", else -1
  appConfig,  \* <<>> while undefined, else <<the record loadConfig returned>>
  tools,      \* the advertised tool names
  client,     \* <<>> while undefined, else <<[baseUrl, apiToken, authCookie]>>
  logins,     \* number of login exchanges started
  cookieSets, \* number of assignments to client.authCookie
  pc,         \* per connection: "idle" | "fetch" (awaiting the backend) | "done"
  req,        \* per connection: the request being handled
  sock,       \* per connection: "open" | "destroyed"
  frame,      \* per connection: the locals of the suspended client method
  calls,      \* per connection: the backend calls issued for the request
  sent        \* per connection: the responses written, each with whether the
              \* socket was still open to carry it

srvVars == <<phase, exitCode, appConfig, tools, client, logins, cookieSets>>
conVars == <<pc, req, sock, frame, calls, sent>>
vars == <<srvVars, conVars>>

NoReq ==
  [method |-> "", route |-> "", raw |-> "", tool |-> Undef,
   params |-> NoParams, jsonrpc |-> Undef, rpcMethod |-> Undef, id |-> Undef]

\* listPages' locals (op = "listPages"), or just the pending single call.
\* pages records the results the loop has consumed so far.
NoFrame ==
  [op |-> "none", spaceId |-> Undef, items |-> <<>>, page |-> 0,
   hasNext |-> FALSE, lastMeta |-> "null", pages |-> <<>>]

Init ==
  /\ phase = "start"
  /\ exitCode = -1
  /\ appConfig = <<>>
  /\ tools = baseTools
  /\ client = <<>>
  /\ logins = 0
  /\ cookieSets = 0
  /\ pc = [c \in Conns |-> "idle"]
  /\ req = [c \in Conns |-> NoReq]
  /\ sock = [c \in Conns |-> "open"]
  /\ frame = [c \in Conns |-> NoFrame]
  /\ calls = [c \in Conns |-> <<>>]
  /\ sent = [c \in Conns |-> <<>>]

\* ------------------------------------------------------------ login reply
COther == <<"sid", "=", "z", ";", "Path", "=", "/">>
CAuth == <<"authToken", "=", "s1", ";", "Path", "=", "/">>
CAuthEq == <<"authToken", "=", "s1", "=", "x">>
CAuthEmpty == <<"authToken", "=", ";", "HttpOnly">>

\* What the backend may answer to POST /api/auth/login.  arrives = FALSE is
\* a rejected fetch; parses = FALSE a body response.json() cannot parse;
\* arrayApi tells whether Headers.getSetCookie exists in the runtime.
LoginResponses ==
  [arrives : BOOLEAN, ok : BOOLEAN, jsonDeclared : BOOLEAN, parses : BOOLEAN,
   arrayApi : BOOLEAN,
   setCookie : {<<>>, <<COther>>, <<CAuth>>, <<COther, CAuth>>,
                <<CAuthEq>>, <<CAuthEmpty>>}]

\* The cookies array login() searches.
LoginCookies(r) ==
  IF r.arrayApi THEN r.setCookie
  ELSE IF r.setCookie = <<>> THEN <<>>
  ELSE <<Join(r.setCookie, <<",">>)>>

\* authCookie.split(';')[0].split('=')[1], <<>> when undefined or empty.
ExtractToken(cookie) ==
  LET parts == Split(Split(cookie, ";")[1], "=")
  IN IF Len(parts) >= 2 THEN parts[2] ELSE <<>>

\* The token login() stores, or <<>> when login() throws.
LoginToken(r) ==
  LET found == Find(LoginCookies(r), <<"authToken", "=">>)
  IN IF ~r.arrives THEN <<>>
     ELSE IF r.jsonDeclared /\ ~r.parses THEN <<>>
     ELSE IF ~r.ok THEN <<>>
     ELSE IF found = <<>> THEN <<>>
     ELSE ExtractToken(found[1])

\* ---------------------------------------------------------------- bootstrap
\* bootstrap logging in whenever credentials are configured.
NeedsLoginAlways(cfg) == cfg.credentials # <<>>

NeedsLogin(cfg) == ~Truthy(cfg.apiToken) /\ cfg.credentials # <<>>

NewClient(cfg) ==
  [baseUrl |-> cfg.baseUrl, apiToken |-> cfg.apiToken, authCookie |-> <<>>]

\* bootstrap() up to its first await (or to listen when no login is needed).
Bootstrap(env) ==
  /\ phase = "start"
  /\ IF loadConfigThrows(env)
     THEN /\ phase' = "exited"
          /\ exitCode' = 1
          /\ UNCHANGED <<appConfig, tools, client, logins>>
     ELSE LET cfg == loadConfig(env)
          IN /\ appConfig' = <<cfg>>
             /\ tools' = AdvertisedTools(cfg.readOnly)
             /\ client' = <<NewClient(cfg)>>
             /\ exitCode' = -1
             /\ IF NeedsLogin(cfg)
                THEN phase' = "login" /\ logins' = logins + 1
                ELSE phase' = "listening" /\ logins' = logins
  /\ UNCHANGED <<cookieSets, conVars>>

\* The login fetch settles: login() stores the token and bootstrap goes on to
\* listen, or login() throws and bootstrap().catch exits with status 1.
LoginAnswer(r) ==
  /\ phase = "login"
  /\ LET token == LoginToken(r)
     IN IF token = <<>>
        THEN /\ phase' = "exited"
             /\ exitCode' = 1
             /\ UNCHANGED <<client, cookieSets>>
        ELSE /\ client' = <<[client[1] EXCEPT !.authCookie = token]>>
             /\ cookieSets' = cookieSets + 1
             /\ phase' = "listening"
             /\ exitCode' = -1
  /\ UNCHANGED <<appConfig, tools, logins, conVars>>

\* ----------------------------------------------------------- request menus
ToolInputs == Range(baseTools) \cup {"bogus", Undef}

\* Bodies of the direct shape, {tool, params}.
DirectBody(tool, params) == [tool |-> tool, params |-> params]
DirectBodies == {DirectBody(t, p) : t \in ToolInputs, p \in ParamMenu}
EmptyDirectBody == DirectBody(Undef, NoParams)

\* Bodies of the envelope shape, {jsonrpc, method, id, params: {name,
\* arguments}}; name = Undef also stands for a body without params.
RpcBody(jsonrpc, method, id, name, arguments) ==
  [jsonrpc |-> jsonrpc, method |-> method, id |-> id, name |-> name,
   arguments |-> arguments]
RpcIds == {Undef, "7"}
RpcBodies ==
  {RpcBody(Undef, "list_tools", "7", Undef, NoParams),
   RpcBody("2.0", Undef, "7", Undef, NoParams)}
    \cup {RpcBody("2.0", m, i, Undef, NoParams) :
            m \in {"initialize", "list_tools", "bogus"}, i \in RpcIds}
    \cup {RpcBody("2.0", "call_tool", i, t, p) :
            i \in RpcIds, t \in ToolInputs, p \in ParamMenu}
EmptyRpcBody == RpcBody(Undef, Undef, Undef, Undef, NoParams)

RpcUrls == {"/", "/mcp", "/mc", "/m"}
ToolCallUrl == "/mcp/tool-call"
WellKnownUrls == {"/.well-known/mcp", "/mcp/.well-known/mcp"}

\* Requests the handler answers without reading a body.
SimpleRequests ==
  {<<"OPTIONS", "/mcp">>, <<"GET", "/">>, <<"GET", "/health">>,
   <<"GET", "/mcp/tools">>, <<"GET", "/.well-known/mcp">>,
   <<"GET", "/mcp/.well-known/mcp">>, <<"GET", "/mcp">>, <<"GET", "/nope">>,
   <<"POST", "/nope">>, <<"DELETE", "/mcp">>}

\* ------------------------------------------------------------ the handler
readOnlyNow == appConfig # <<>> /\ appConfig[1].readOnly

Written(c, r, sk) ==
  Append(sent[c], [resp |-> r, delivered |-> (sk = "open")])

NoReplySummary ==
  [arrives |-> FALSE, status |-> 0, ctJson |-> FALSE, ctHtml |-> FALSE,
   bodyKind |-> "none", text |-> "", parsed |-> FALSE]
Summary(r) ==
  [arrives |-> r.arrives, status |-> r.status, ctJson |-> r.ctJson,
   ctHtml |-> r.ctHtml, bodyKind |-> r.bodyKind, text |-> r.text,
   parsed |-> ParsesAsJson(r)]

\* One fetch of request(): what is sent, and (once settled) what came back.
CallRec(post, cl) ==
  [path |-> post.path, body |-> post.body, headers |-> AuthHeaders(cl),
   state |-> "pending", errKind |-> "none", reply |-> NoReplySummary]

StartFrame(post) ==
  IF post.path = "/api/pages/sidebar-pages"
  THEN [NoFrame EXCEPT !.op = "listPages", !.spaceId = post.body.spaceId,
                       !.page = 1, !.hasNext = TRUE]
  ELSE [NoFrame EXCEPT !.op = "single"]

\* The adapter's answer to the outcome of the tool call.
Answer(rq, throws, e, value) ==
  IF rq.route = "direct"
  THEN IF throws THEN DirectCatch(e) ELSE sendJsonResult(value)
  ELSE IF throws THEN RpcCatch(e) ELSE sendJsonRpc(rq.id, <<>>, value, "content")

\* The handler runs handleToolCall: it answers at once when that throws,
\* and suspends on the client's fetch otherwise.
Dispatch(c, rq, sk) ==
  LET step == handleToolCall(readOnlyNow, rq.tool, rq.params)
  IN IF step.tag = "throw"
     THEN /\ pc' = [pc EXCEPT ![c] = "done"]
          /\ sent' = [sent EXCEPT ![c] = Written(c, Answer(rq, TRUE, step.error, NoValue), sk)]
          /\ UNCHANGED <<frame, calls>>
     ELSE /\ pc' = [pc EXCEPT ![c] = "fetch"]
          /\ calls' = [calls EXCEPT ![c] = Append(@, CallRec(step, client[1]))]
          /\ frame' = [frame EXCEPT ![c] = StartFrame(step)]
          /\ UNCHANGED sent

Reject(c, rq, sk, e) ==
  /\ pc' = [pc EXCEPT ![c] = "done"]
  /\ sent' = [sent EXCEPT ![c] = Written(c, Answer(rq, TRUE, e, NoValue), sk)]
  /\ UNCHANGED <<frame, calls>>

SocketAfterBody(raw) == IF parseJsonBodyDestroys(raw) THEN "destroyed" ELSE "open"

\* POST /mcp/tool-call (server.js:216-225).
PostToolCall(c, raw, body) ==
  /\ phase = "listening"
  /\ pc[c] = "idle"
  /\ LET b == IF raw = "json" THEN body ELSE EmptyDirectBody
         rq == [NoReq EXCEPT !.method = "POST", !.route = "direct",
                             !.raw = raw, !.tool = b.tool, !.params = b.params]
         sk == SocketAfterBody(raw)
     IN /\ req' = [req EXCEPT ![c] = rq]
        /\ sock' = [sock EXCEPT ![c] = sk]
        /\ IF parseJsonBodyRejects(raw)
           THEN Reject(c, rq, sk, parseJsonBodyError(raw))
           ELSE Dispatch(c, rq, sk)
  /\ UNCHANGED srvVars

\* POST / and POST /mcp, /mc, /m (server.js:197-206 and 227-236).
PostJsonRpc(c, url, raw, body) ==
  /\ phase = "listening"
  /\ pc[c] = "idle"
  /\ url \in RpcUrls
  /\ LET b == IF raw = "json" THEN body ELSE EmptyRpcBody
         step == handleJsonRpc(b)
         rq == [NoReq EXCEPT !.method = "POST", !.route = "rpc", !.raw = raw,
                             !.jsonrpc = b.jsonrpc, !.rpcMethod = b.method,
                             !.id = b.id, !.tool = step.tool,
                             !.params = step.params]
         sk == SocketAfterBody(raw)
     IN /\ req' = [req EXCEPT ![c] = rq]
        /\ sock' = [sock EXCEPT ![c] = sk]
        /\ IF parseJsonBodyRejects(raw)
           THEN Reject(c, rq, sk, parseJsonBodyError(raw))
           ELSE IF step.tag = "throw"
           THEN Reject(c, rq, sk, step.error)
           ELSE IF step.tag = "result"
           THEN /\ pc' = [pc EXCEPT ![c] = "done"]
                /\ sent' = [sent EXCEPT ![c] =
                     Written(c, sendJsonRpc(b.id,
                                            IF step.what = "tools" THEN tools ELSE <<>>,
                                            NoValue, step.what), sk)]
                /\ UNCHANGED <<frame, calls>>
           ELSE Dispatch(c, rq, sk)
  /\ UNCHANGED srvVars

\* Every other branch of the handler: it answers without awaiting anything.
SimpleAnswer(method, url) ==
  IF method = "OPTIONS"
  THEN Response(204, "empty", "info", Undef, 0, NoErr, <<>>, NoValue, "preflight")
  ELSE IF url = "/" /\ method = "GET" THEN sendJsonInfo(200, tools, "running")
  ELSE IF url = "/health" /\ method = "GET" THEN sendJsonInfo(200, <<>>, "ok")
  ELSE IF url = "/mcp/tools" /\ method = "GET" THEN sendJsonInfo(200, tools, "tools")
  ELSE IF url \in WellKnownUrls /\ method = "GET"
  THEN sendJsonInfo(200, <<>>, "discovery")
  ELSE IF method # "GET" /\ method # "POST"
  THEN sendJsonInfo(405, <<>>, "Metodo no permitido")
  ELSE sendJsonInfo(404, <<>>, "Ruta no encontrada")

Simple(c, method, url) ==
  /\ phase = "listening"
  /\ pc[c] = "idle"
  /\ ~(method = "POST" /\ url \in RpcUrls \cup {ToolCallUrl})
  /\ req' = [req EXCEPT ![c] = [NoReq EXCEPT !.method = method, !.route = url]]
  /\ pc' = [pc EXCEPT ![c] = "done"]
  /\ sent' = [sent EXCEPT ![c] = Written(c, SimpleAnswer(method, url), sock[c])]
  /\ UNCHANGED <<srvVars, sock, frame, calls>>

\* The loop body putting each page's items in front of the earlier ones.
LoopStepPrepend(f, v) ==
  LET pageItems == IF v.t = "obj" /\ v.hasItems THEN v.items ELSE <<>>
      lastMeta == IF v.t = "obj" /\ v.meta \notin {"absent", "null"}
                  THEN v.meta ELSE "null"
  IN [f EXCEPT !.items = pageItems \o @,
               !.lastMeta = lastMeta,
               !.hasNext = (lastMeta = "true"),
               !.page = @ + 1,
               !.pages = Append(@, v)]

\* listPages' loop body after `await this.post(...)` returned v.
LoopStep(f, v) ==
  LET pageItems == IF v.t = "obj" /\ v.hasItems THEN v.items ELSE <<>>
      lastMeta == IF v.t = "obj" /\ v.meta \notin {"absent", "null"}
                  THEN v.meta ELSE "null"
  IN [f EXCEPT !.items = @ \o pageItems,
               !.lastMeta = lastMeta,
               !.hasNext = (lastMeta = "true"),
               !.page = @ + 1,
               !.pages = Append(@, v)]

\* listPages' return value.
ListResult(f) == Obj(TRUE, f.items, f.lastMeta)

\* What the suspended client method does once request() settled with out:
\* "throw" (the error propagates to the adapter's catch and the method's
\* locals are gone), "return" (the value goes to the adapter) or "post"
\* (listPages' loop goes round: the next page is requested).
Resumed(tag, error, value, f) ==
  [tag |-> tag, error |-> error, value |-> value, frame |-> f]

\* listPages swallowing a failure after the first page and returning what it
\* has accumulated.
ResumeSwallow(f, out) ==
  IF out.throws
  THEN IF f.op = "listPages" /\ f.page > 1
       THEN Resumed("return", NoErr, Obj(TRUE, f.items, f.lastMeta), f)
       ELSE Resumed("throw", out.error, NoValue, NoFrame)
  ELSE IF f.op = "single" THEN Resumed("return", NoErr, out.value, f)
  ELSE LET f2 == LoopStep(f, out.value)
       IN IF f2.hasNext THEN Resumed("post", NoErr, NoValue, f2)
          ELSE Resumed("return", NoErr, ListResult(f2), f2)

Resume(f, out) ==
  IF out.throws THEN Resumed("throw", out.error, NoValue, NoFrame)
  ELSE IF f.op = "single" THEN Resumed("return", NoErr, out.value, f)
  ELSE LET f2 == LoopStep(f, out.value)
       IN IF f2.hasNext THEN Resumed("post", NoErr, NoValue, f2)
          ELSE Resumed("return", NoErr, ListResult(f2), f2)

\* The fetch of connection c settles with reply r: request() turns it into
\* a value or an error, and the suspended handler runs to its next await or
\* to its response.
BackendAnswer(c, r) ==
  /\ pc[c] = "fetch"
  /\ LET out == request(r)
         n == Len(calls[c])
         logged == [calls[c] EXCEPT
                      ![n].state = IF out.throws THEN "fail" ELSE "ok",
                      ![n].errKind = out.error.kind,
                      ![n].reply = Summary(r)]
         k == Resume(frame[c], out)
     IN /\ frame' = [frame EXCEPT ![c] = k.frame]
        /\ IF k.tag = "post"
           THEN /\ frame[c].page < MaxPage
                /\ calls' = [calls EXCEPT ![c] =
                     Append(logged,
                            CallRec(SidebarPages(k.frame.spaceId, k.frame.page),
                                    client[1]))]
                /\ UNCHANGED <<pc, sent>>
           ELSE /\ pc' = [pc EXCEPT ![c] = "done"]
                /\ calls' = [calls EXCEPT ![c] = logged]
                /\ sent' = [sent EXCEPT ![c] =
                     Written(c, Answer(req[c], k.tag = "throw", k.error, k.value),
                             sock[c])]
  /\ UNCHANGED <<srvVars, req, sock>>

\* The exchange is over; the slot takes the next connection.
Close(c) ==
  /\ pc[c] = "done"
  /\ pc' = [pc EXCEPT ![c] = "idle"]
  /\ req' = [req EXCEPT ![c] = NoReq]
  /\ sock' = [sock EXCEPT ![c] = "open"]
  /\ frame' = [frame EXCEPT ![c] = NoFrame]
  /\ calls' = [calls EXCEPT ![c] = <<>>]
  /\ sent' = [sent EXCEPT ![c] = <<>>]
  /\ UNCHANGED srvVars

\* ---------------------------------------------------------- specifications
\* Every request and every backend reply of the menus, on one connection.
Next ==
  \/ \E env \in Envs : Bootstrap(env)
  \/ \E r \in LoginResponses : LoginAnswer(r)
  \/ \E m \in SimpleRequests : Simple(1, m[1], m[2])
  \/ \E raw \in RawKinds :
       \E body \in (IF raw = "json" THEN DirectBodies ELSE {EmptyDirectBody}) :
         PostToolCall(1, raw, body)
  \/ \E url \in RpcUrls, raw \in RawKinds :
       \E body \in (IF raw = "json" THEN RpcBodies ELSE {EmptyRpcBody}) :
         PostJsonRpc(1, url, raw, body)
  \/ \E r \in Replies : BackendAnswer(1, r)
  \/ Close(1)

Spec == Init /\ [][Next]_vars

\* Requests on all connections at once, interleaved at every await, with a
\* few requests and replies of each kind.
FewSimple == {<<"GET", "/">>, <<"GET", "/mcp/tools">>}
FewDirect ==
  {DirectBody("list_spaces", NoParams), DirectBody("create_page", FullParams)}
FewRpc ==
  {RpcBody("2.0", "list_tools", "7", Undef, NoParams),
   RpcBody("2.0", "call_tool", "7", "list_pages", FullParams)}
FewReplies ==
  {NetworkFailure,
   JsonReply(200, TRUE, FALSE, TRUE, Obj(TRUE, <<"c">>, "true")),
   JsonReply(200, TRUE, FALSE, FALSE, Obj(TRUE, <<"c">>, "false"))}

NextAll ==
  \/ \E env \in Envs : Bootstrap(env)
  \/ \E r \in LoginResponses : LoginAnswer(r)
  \/ \E c \in Conns, m \in FewSimple : Simple(c, m[1], m[2])
  \/ \E c \in Conns, body \in FewDirect : PostToolCall(c, "json", body)
  \/ \E c \in Conns, body \in FewRpc : PostJsonRpc(c, "/mcp", "json", body)
  \/ \E c \in Conns, r \in FewReplies : BackendAnswer(c, r)
  \/ \E c \in Conns : Close(c)

SpecAll == Init /\ [][NextAll]_vars

\* ------------------------------------------------------------------ claims
Sidebar == "/api/pages/sidebar-pages"
TheResponse(c) == sent[c][1].resp

\* The body was parsed and handleToolCall ran for the request on c.
Parsed(c) == req[c].raw \in {"json", "empty"}
Dispatched(c) ==
  /\ pc[c] # "idle"
  /\ Parsed(c)
  /\ \/ req[c].route = "direct"
     \/ /\ req[c].route = "rpc"
        /\ Truthy(req[c].jsonrpc)
        /\ req[c].rpcMethod = "call_tool"

\* C1: in read-only mode a dispatched create_page or update_page, in the
\* direct shape or through call_tool, with whatever parameters, is answered
\* with the policy error (not a validation error), and no backend call is
\* issued for it.
C1_ReadOnlyRefusesWrites ==
  \A c \in Conns :
    (Dispatched(c) /\ readOnlyNow
       /\ req[c].tool \in {"create_page", "update_page"}) =>
      /\ pc[c] = "done"
      /\ calls[c] = <<>>
      /\ Len(sent[c]) = 1
      /\ TheResponse(c).kind = "error"
      /\ TheResponse(c).error.kind = "policy"

C1_Witness ==
  \E c \in Conns :
    /\ Dispatched(c) /\ readOnlyNow
    /\ req[c].route = "rpc"
    /\ req[c].tool = "update_page"
    /\ req[c].params = NoParams
    /\ pc[c] = "done"
    /\ TheResponse(c).error.kind = "policy"

\* C2: a dispatched tool name outside the registry, or no tool name at all,
\* is answered with a validation error (naming the tool when one was given)
\* and no backend call is issued, whatever the parameters and the read-only
\* setting.
C2_UnknownToolRejected ==
  \A c \in Conns :
    (Dispatched(c) /\ req[c].tool \notin Range(baseTools)) =>
      /\ pc[c] = "done"
      /\ calls[c] = <<>>
      /\ Len(sent[c]) = 1
      /\ TheResponse(c).kind = "error"
      /\ TheResponse(c).error.kind = "validation"
      /\ Truthy(req[c].tool) => TheResponse(c).error.arg1 = req[c].tool

C2_Witness ==
  \E c \in Conns :
    /\ Dispatched(c) /\ readOnlyNow
    /\ req[c].tool = "bogus"
    /\ req[c].params = FullParams
    /\ TheResponse(c).error.kind = "validation"
    /\ TheResponse(c).error.arg1 = "bogus"

\* What a page contributes, read off the page itself.
PageItems(v) == IF v.t = "obj" /\ v.hasItems THEN v.items ELSE <<>>
PageMeta(v) == IF v.t = "obj" /\ v.meta # "absent" THEN v.meta ELSE "null"
PageHasNext(v) == v.t = "obj" /\ v.meta = "true"

RECURSIVE ConcatItems(_)
ConcatItems(ps) ==
  IF ps = <<>> THEN <<>> ELSE PageItems(Head(ps)) \o ConcatItems(Tail(ps))

\* C3: listPages requests pages 1, 2, 3, ... in order, one at a time; every
\* page but the last it fetched had hasNextPage true and the last had not;
\* its result's items are the pages' items concatenated in request order and
\* its meta is the last page's metadata.
C3_ListPagesAccumulates ==
  \A c \in Conns :
    (frame[c].op = "listPages") =>
      LET f == frame[c]
          n == Len(f.pages)
      IN /\ \A i \in DOMAIN calls[c] :
              /\ calls[c][i].path = Sidebar
              /\ calls[c][i].body.page = i
              /\ calls[c][i].body.spaceId = req[c].params.spaceId
              /\ (calls[c][i].state = "pending") => (i = Len(calls[c]))
         /\ \A i \in 1..n : (i < n \/ pc[c] = "fetch") => PageHasNext(f.pages[i])
         /\ (pc[c] = "fetch") => (Len(calls[c]) = n + 1)
         /\ (pc[c] = "done") =>
              /\ n >= 1
              /\ Len(calls[c]) = n
              /\ ~PageHasNext(f.pages[n])
              /\ Len(sent[c]) = 1
              /\ TheResponse(c).kind = "result"
              /\ TheResponse(c).content.t = "obj"
              /\ TheResponse(c).content.hasItems
              /\ TheResponse(c).content.items = ConcatItems(f.pages)
              /\ TheResponse(c).content.meta = PageMeta(f.pages[n])

C3_Witness ==
  \E c \in Conns :
    /\ pc[c] = "done"
    /\ frame[c].op = "listPages"
    /\ frame[c].pages = <<Obj(TRUE, <<"a", "b">>, "true"), Obj(TRUE, <<"c">>, "false")>>
    /\ TheResponse(c).content.items = <<"a", "b", "c">>
    /\ TheResponse(c).content.meta = "false"

\* C4 (as claimed): the pagination loop stops by itself after a bounded number
\* of iterations even when every page says hasNextPage true: here, that it
\* never requests a page beyond page MaxPage - 1, whatever the bound MaxPage
\* of the exploration.
C4_LoopBounded ==
  \A c \in Conns :
    \A i \in DOMAIN calls[c] :
      calls[c][i].path = Sidebar => calls[c][i].body.page <= MaxPage - 1

\* C5 (as claimed): every response to an envelope request whose body could
\* be read carries the id of that request, in results and in errors.
C5_IdEchoed ==
  \A c \in Conns :
    (pc[c] = "done" /\ req[c].route = "rpc" /\ Parsed(c)) =>
      \A i \in DOMAIN sent[c] : sent[c][i].resp.id = req[c].id

\* A reply whose content signals an HTML document.
SignalsHtml(rs) ==
  rs.arrives /\ (rs.ctHtml \/ (rs.bodyKind = "text" /\ IncludesDoctype(rs.text)))

\* C6 (as claimed): a reply that signals HTML always fails the call with
\* ConfigError, whatever its status and declared content type, and its body
\* is never handed to the JSON parser.
C6_HtmlIsConfigError ==
  \A c \in Conns :
    \A i \in DOMAIN calls[c] :
      (calls[c][i].state # "pending" /\ SignalsHtml(calls[c][i].reply)) =>
        /\ calls[c][i].state = "fail"
        /\ calls[c][i].errKind = "config"
        /\ ~calls[c][i].reply.parsed

\* A request of either protocol shape that failed.
Failed(c) ==
  /\ pc[c] = "done"
  /\ req[c].route \in {"direct", "rpc"}
  /\ \/ ~Parsed(c)
     \/ /\ req[c].route = "rpc"
        /\ \/ ~Truthy(req[c].jsonrpc)
           \/ req[c].rpcMethod \notin {"initialize", "list_tools", "call_tool"}
     \/ Dispatched(c) /\ calls[c] = <<>>
     \/ calls[c] # <<>> /\ calls[c][Len(calls[c])].state = "fail"

ErrorShaped(c, r) ==
  /\ r.kind = "error"
  /\ r.error # NoErr
  /\ r.content = NoValue
  /\ IF req[c].route = "direct"
     THEN r.shape = "json" /\ r.status >= 400 /\ r.status <= 499
     ELSE r.shape = "rpc" /\ r.code = -32600

\* C7 (as claimed): every failed request receives exactly one response, in
\* the error shape of its protocol and never a result, and the server goes
\* on listening.
C7_OneErrorResponse ==
  \A c \in Conns :
    Failed(c) =>
      /\ Len(sent[c]) = 1
      /\ sent[c][1].delivered
      /\ ErrorShaped(c, TheResponse(c))
      /\ phase = "listening"

StaticToken == appConfig # <<>> /\ Truthy(appConfig[1].apiToken)

\* C8: the credential is settled before the listener serves anything.  With
\* a static token no login runs and every backend call carries it as Bearer
\* authorization; otherwise exactly one login ran and succeeded, the session
\* token was assigned exactly once, and every backend call carries it as the
\* authToken cookie.  No request is handled before, or after a failed
\* startup.
C8_CredentialFixed ==
  /\ (phase # "listening") => \A c \in Conns : pc[c] = "idle" /\ calls[c] = <<>>
  /\ (phase = "exited") => exitCode = 1
  /\ (phase = "listening") =>
       /\ client[1].apiToken = appConfig[1].apiToken
       /\ IF StaticToken
          THEN logins = 0 /\ cookieSets = 0 /\ client[1].authCookie = <<>>
          ELSE logins = 1 /\ cookieSets = 1 /\ client[1].authCookie # <<>>
       /\ \A c \in Conns :
            \A i \in DOMAIN calls[c] :
              IF StaticToken
              THEN /\ calls[c][i].headers.Authorization =
                        <<"Bearer", " ", appConfig[1].apiToken>>
                   /\ calls[c][i].headers.Cookie = <<>>
              ELSE /\ calls[c][i].headers.Cookie =
                        <<"authToken", "=">> \o client[1].authCookie
                   /\ calls[c][i].headers.Authorization = <<>>

C8_Witness ==
  /\ ~StaticToken
  /\ \E c, d \in Conns :
       /\ c # d
       /\ pc[c] = "fetch" /\ pc[d] = "fetch"
       /\ calls[c][1].headers.Cookie = <<"authToken", "=", "s1">>
       /\ Len(calls[d]) = 2
       /\ calls[d][2].headers.Cookie = <<"authToken", "=", "s1">>

ReadTools == <<"list_spaces", "list_pages", "get_page", "search_pages">>
ListsTools(c) ==
  /\ pc[c] = "done"
  /\ \/ req[c].method = "GET" /\ req[c].route \in {"/", "/mcp/tools"}
     \/ /\ req[c].route = "rpc" /\ Parsed(c) /\ Truthy(req[c].jsonrpc)
        /\ req[c].rpcMethod = "list_tools"

\* C9: once the listener is up the advertised set is the four read tools in
\* read-only mode and all six tools otherwise, every response that lists
\* tools on any connection carries exactly that set, and list_tools answers
\* {jsonrpc: "2.0", id, result: {tools}} with the request's id.
C9_ToolSetFixed ==
  (phase = "listening") =>
    /\ tools = IF readOnlyNow THEN ReadTools ELSE baseTools
    /\ \A c \in Conns :
         ListsTools(c) =>
           /\ Len(sent[c]) = 1
           /\ TheResponse(c).tools = tools
           /\ TheResponse(c).status = 200
           /\ (req[c].route = "rpc") =>
                /\ TheResponse(c).shape = "rpc"
                /\ TheResponse(c).kind = "result"
                /\ TheResponse(c).id = req[c].id

C9_Witness ==
  /\ readOnlyNow
  /\ \E c, d \in Conns :
       /\ c # d
       /\ ListsTools(c) /\ req[c].route = "/mcp/tools"
       /\ ListsTools(d) /\ req[d].route = "rpc"
       /\ TheResponse(c).tools = ReadTools
       /\ TheResponse(d).tools = ReadTools
       /\ TheResponse(d).id = "7"

\* C10: the backend calls of a request are issued one after the other (only
\* the last can be unanswered, and then the handler is suspended on it), no
\* call is repeated, and a failed call is the request's last: the request is
\* answered at once with an error that carries no items.
C10_NoRetrySequential ==
  \A c \in Conns :
    LET n == Len(calls[c])
    IN /\ \A i \in 1..n :
            /\ (calls[c][i].state = "pending") => (i = n /\ pc[c] = "fetch")
            /\ (calls[c][i].state = "fail") =>
                 /\ i = n
                 /\ pc[c] = "done"
                 /\ Len(sent[c]) = 1
                 /\ TheResponse(c).kind = "error"
                 /\ TheResponse(c).content = NoValue
            /\ \A j \in 1..n :
                 (i # j) => <<calls[c][i].path, calls[c][i].body>>
                              # <<calls[c][j].path, calls[c][j].body>>
       /\ (pc[c] = "fetch") => (n >= 1 /\ calls[c][n].state = "pending")

C10_Witness ==
  \E c \in Conns :
    /\ pc[c] = "done"
    /\ Len(calls[c]) = 3
    /\ calls[c][1].state = "ok" /\ calls[c][2].state = "ok"
    /\ calls[c][3].state = "fail"
    /\ calls[c][3].path = Sidebar
    /\ TheResponse(c).kind = "error"
====
